---- MODULE Spec2Model ----
(***************************************************************************)
(* Model of src/julia-amp.cpp: the Worker (one thread serving a FIFO queue *)
(* of type-erased packaged tasks), the Julia singleton that owns it, and   *)
(* the LV2 callbacks activate() and run() that submit tasks touching the   *)
(* embedded Julia runtime.                                                 *)
(***************************************************************************)
EXTENDS Integers, Sequences, FiniteSets, TLC

\* ---------------------------------------------------------------- bounds
NCallers == 2
MaxTasks == 2
MaxBlocks == 1

\* --------------------------------------------------------------- threads
Callers      == {<<"caller", i>> : i \in 1..NCallers}
WorkerThread == <<"worker", 0>>
ExitThread   == <<"exit", 0>>
NoThread     == <<"none", 0>>
Clients      == Callers \cup {ExitThread}

\* ---------------------------------------------------------------- values
Sentinel    == -1
NullHandle  == 0
ValidHandle == 1
Coefs       == {0, 2}
JlTypes     == {"Float32", "Float64", "Int64"}
Samples     == {1, 2}

None      == <<"none", 0>>
Void      == <<"void", 0>>
Exc       == <<"exc", 0>>
Val(v)    == <<"val", v>>
Handle(h) == <<"handle", h>>

\* ----------------------------------------------------------------- works
Work(k, a)  == [kind |-> k, arg |-> a]
InitWork    == Work("init", 0)
FinWork     == Work("fin", 0)
HelloWork   == Work("hello", 0)
ResolveWork == Work("resolve", 0)
TestWork    == Work("testcall", -3)
ProcWork(g) == Work("process", g)
NoWork      == Work("none", 0)
Gains       == {3}
ScriptWork  == Work("script", 0)
SpawnWork   == Work("pure", 5)
UserWorks   == {Work("pure", 4), Work("throws", 0)}
PluginKinds == {"hello", "resolve", "testcall", "process"}

VARIABLES
  nrvo,      \* whether the build constructs spawn's local task in the caller's return slot
  guard,     \* initialisation guard of the function-local static Julia instance
  built,     \* Worker members declared after t (mtx, cond, tasks) are constructed
  running,   \* Worker::running
  mtx,       \* thread holding Worker::mtx, or NoThread
  tasks,     \* Worker::tasks: ids of the packaged_task objects the entries refer to
  wpc,       \* position of the worker thread in threadFunc
  wcur,      \* the entry the worker moved out of the queue
  objs,      \* every packaged_task created so far, by id
  pc,        \* position of each client thread
  ctx,       \* which function a client's Worker::run/spawn call is made from
  req,       \* the work and mode of the call a client is making
  cur,       \* id of the task a client is submitting or waiting for
  ret,       \* the value the client's last call returned
  amp,       \* the plugin instance (Amp), the host's lifecycle stage, and the last
             \* block processed: the input sample, the coefficient, the output sample
  ncalls,    \* number of Julia::run / Julia::spawn calls made
  nblocks,   \* number of process-a-block calls made
  jlcalls,   \* <<runtime function, thread>> for every runtime call made
  nInit,     \* executions of jl_init
  nFin,      \* executions of jl_atexit_hook
  appended,  \* ids in the order they were pushed to the queue
  started,   \* ids in the order the worker began executing them
  raced,     \* some thread reached instance() while the instance was under construction
  crashed    \* the process has terminated abnormally

vars == <<nrvo, guard, built, running, mtx, tasks, wpc, wcur, objs, pc, ctx, req,
          cur, ret, amp, ncalls, nblocks, jlcalls, nInit, nFin, appended, started,
          raced, crashed>>

Ids == 1..Len(objs)

\* calloc'd Amp (instantiate) : db_to_coef is a null pointer
Init ==
  /\ nrvo \in BOOLEAN
  /\ guard = "uninit"
  /\ built = FALSE
  /\ running = TRUE
  /\ mtx = NoThread
  /\ tasks = <<>>
  /\ wpc = "none"
  /\ wcur = 0
  /\ objs = <<>>
  /\ pc = [t \in Clients |-> "idle"]
  /\ ctx = [t \in Clients |-> "call"]
  /\ req = [t \in Clients |-> [work |-> NoWork, mode |-> "run"]]
  /\ cur = [t \in Clients |-> 0]
  /\ ret = [t \in Clients |-> None]
  /\ amp = [db_to_coef |-> NullHandle, stage |-> "instantiated",
            input |-> 0, coef |-> 0, output |-> 0]
  /\ ncalls = 0
  /\ nblocks = 0
  /\ jlcalls = {}
  /\ nInit = 0
  /\ nFin = 0
  /\ appended = <<>>
  /\ started = <<>>
  /\ raced = FALSE
  /\ crashed = FALSE

\* ------------------------------------------------- singleton lifecycle
\* The lifecycle stage of the process-wide runtime, read off the static
\* guard (line 104) and the progress of the static destructor (114-119, 56-63).
Lifecycle ==
  CASE guard = "uninit"             -> "UNINITIALIZED"
    [] guard = "constructing"       -> "INITIALIZING"
    [] pc[ExitThread] = "idle"      -> "READY"
    [] pc[ExitThread] = "done"      -> "STOPPED"
    [] OTHER                        -> "FINALIZING"

Rank(s) ==
  CASE s = "UNINITIALIZED" -> 0
    [] s = "INITIALIZING"  -> 1
    [] s = "READY"         -> 2
    [] s = "FINALIZING"    -> 3
    [] s = "STOPPED"       -> 4

\* The Worker object has been destroyed (its destructor returned).
Destroyed == pc[ExitThread] = "done"

\* ------------------------------------------------------- task objects
\* std::packaged_task<R()> task(f): what the queue entry [&task]{ task(); }
\* refers to, with the shared state of its future.
NewTask(w, t) ==
  [work |-> w, owner |-> t, ref |-> "live", st |-> "pending", res |-> None,
   by |-> NoThread, at |-> Lifecycle, sig |-> FALSE, used |-> FALSE,
   rt |-> "none", unboxed |-> FALSE]

\* The work a client's Worker::run / Worker::spawn call submits.
CurWork(t) ==
  CASE ctx[t] = "ctor" -> InitWork
    [] ctx[t] = "dtor" -> FinWork
    [] OTHER           -> req[t].work

\* ---------------------------------------------------- the task bodies
Out(r, ops, sig, used, rt, unboxed) ==
  [res |-> r, ops |-> ops, sig |-> sig, used |-> used, rt |-> rt,
   unboxed |-> unboxed, crash |-> FALSE]

CrashOut(ops) ==
  [res |-> None, ops |-> ops, sig |-> TRUE, used |-> TRUE, rt |-> "none",
   unboxed |-> FALSE, crash |-> TRUE]

Unbox_unchecked(ty, p) == [res |-> Val(p), unboxed |-> TRUE]

\* if (jl_typeis(ret, jl_float32_type)) unbox else -1
Unbox(ty, p) ==
  IF ty = "Float32" THEN [res |-> Val(p), unboxed |-> TRUE]
  ELSE [res |-> Val(Sentinel), unboxed |-> FALSE]

\* jl_call1(db_to_coef, jl_box_float32(gain)) followed by the type test.
\* The exception test of activate only prints; run has none.  After an
\* exception ret is a null pointer and jl_typeis reads through it.
CallOutcomes(h) ==
  LET ops == {"jl_box_float32", "jl_call1"} IN
  IF h # ValidHandle THEN {CrashOut(ops)}
  ELSE {Out(Unbox(ty, p).res, ops, FALSE, FALSE, ty, Unbox(ty, p).unboxed) :
           ty \in JlTypes, p \in Coefs}
       \cup {CrashOut(ops)}
       \cup {Out(Val(Sentinel), ops, TRUE, TRUE, "none", FALSE)}
       \cup {Out(Val(p), ops, TRUE, TRUE, "none", TRUE) : p \in Coefs}

\* jl_eval_string(include ...) then jl_get_function(julia_amp, "db_to_coef");
\* both exception tests only print.  A failed include leaves julia_amp null
\* and jl_get_function reads through it.
ResolveOutcomes ==
  LET ops == {"jl_eval_string", "jl_get_function"} IN
  {Out(Handle(h), ops, FALSE, FALSE, "none", FALSE) : h \in {ValidHandle, NullHandle}}
  \cup {CrashOut(ops)}
  \cup {Out(Handle(NullHandle), ops, TRUE, TRUE, "none", FALSE)}

\* Every way the callable of work w can end when db_to_coef is h.
Outcomes(w, h) ==
  CASE w.kind = "init"     -> {Out(Void, {"jl_init", "jl_eval_string"}, FALSE, FALSE, "none", FALSE)}
    [] w.kind = "fin"      -> {Out(Void, {"jl_eval_string", "jl_atexit_hook"}, FALSE, FALSE, "none", FALSE)}
    [] w.kind = "pure"     -> {Out(Val(w.arg), {}, FALSE, FALSE, "none", FALSE)}
    [] w.kind = "throws"   -> {Out(Exc, {}, FALSE, FALSE, "none", FALSE)}
    [] w.kind = "script"   -> {Out(Void, {"jl_eval_string"}, FALSE, FALSE, "none", FALSE)}
    [] w.kind = "hello"    -> {Out(Void, {"jl_eval_string"}, e, FALSE, "none", FALSE) : e \in BOOLEAN}
    [] w.kind = "resolve"  -> ResolveOutcomes
    [] w.kind = "testcall" -> CallOutcomes(h)
    [] w.kind = "process"  -> CallOutcomes(h)

\* The task after thread th ran its callable with outcome o: packaged_task
\* stores the value, or the exception the callable threw, in the shared state.
Finished(rec, o, th) ==
  [rec EXCEPT !.st = "ready", !.res = o.res, !.by = th, !.sig = o.sig,
              !.used = o.used, !.rt = o.rt, !.unboxed = o.unboxed]

Count(ops, f) == IF f \in ops THEN 1 ELSE 0

\* Thread th runs the callable of task id to its end.
RunBody(th, id) ==
  \E o \in Outcomes(objs[id].work, amp.db_to_coef) :
    IF o.crash
    THEN /\ crashed' = TRUE
         /\ jlcalls' = jlcalls \cup {<<f, th>> : f \in o.ops}
         /\ UNCHANGED <<objs, nInit, nFin>>
    ELSE /\ objs' = [objs EXCEPT ![id] = Finished(@, o, th)]
         /\ jlcalls' = jlcalls \cup {<<f, th>> : f \in o.ops}
         /\ nInit' = nInit + Count(o.ops, "jl_init")
         /\ nFin' = nFin + Count(o.ops, "jl_atexit_hook")
         /\ crashed' = crashed

\* Caller threads are interchangeable: they are numbered in the order in
\* which they make their first call (the test's main thread calls activate
\* before it creates the thread that calls run).
InOrder(c) == \A d \in Callers : d[2] < c[2] => pc[d] # "idle" \/ cur[d] # 0

\* --------------------------------------------------- Julia::instance()
Instance_unguarded(t) ==
  IF guard = "done"
  THEN /\ pc' = [pc EXCEPT ![t] = "s_lock"]
       /\ ctx' = [ctx EXCEPT ![t] = "call"]
       /\ UNCHANGED <<guard, raced>>
  ELSE /\ guard' = "constructing"
       /\ ctx' = [ctx EXCEPT ![t] = "ctor"]
       /\ pc' = [pc EXCEPT ![t] = "ctor_thread"]
       /\ raced' = (raced \/ guard = "constructing")

\* A thread arriving during the construction does not wait for it.
Instance_nowait(t) ==
  IF guard = "uninit"
  THEN /\ guard' = "constructing"
       /\ ctx' = [ctx EXCEPT ![t] = "ctor"]
       /\ pc' = [pc EXCEPT ![t] = "ctor_thread"]
       /\ raced' = raced
  ELSE /\ pc' = [pc EXCEPT ![t] = "s_lock"]
       /\ ctx' = [ctx EXCEPT ![t] = "call"]
       /\ raced' = (raced \/ guard = "constructing")
       /\ guard' = guard

\* static Julia instance: the first thread to arrive constructs it, a thread
\* arriving during the construction waits, later ones pass.
Instance(t) ==
  CASE guard = "uninit" ->
         /\ guard' = "constructing"
         /\ ctx' = [ctx EXCEPT ![t] = "ctor"]
         /\ pc' = [pc EXCEPT ![t] = "ctor_thread"]
         /\ raced' = raced
    [] guard = "constructing" ->
         /\ pc' = [pc EXCEPT ![t] = "inst"]
         /\ raced' = TRUE
         /\ UNCHANGED <<guard, ctx>>
    [] guard = "done" ->
         /\ pc' = [pc EXCEPT ![t] = "s_lock"]
         /\ ctx' = [ctx EXCEPT ![t] = "call"]
         /\ UNCHANGED <<guard, raced>>

\* A thread that waited for the construction of the instance goes on.
C_InstanceReady(c) ==
  /\ ~crashed /\ pc[c] = "inst" /\ guard = "done"
  /\ pc' = [pc EXCEPT ![c] = "s_lock"]
  /\ ctx' = [ctx EXCEPT ![c] = "call"]
  /\ UNCHANGED <<nrvo, guard, built, running, mtx, tasks, wpc, wcur, objs, req, cur,
                 ret, amp, ncalls, nblocks, jlcalls, nInit, nFin, appended, started,
                 raced, crashed>>

\* Worker() : t{&Worker::threadFunc, this} -- t is the first member to be
\* initialised after running, so the thread starts here.
C_CtorThread(c) ==
  /\ ~crashed /\ pc[c] = "ctor_thread"
  /\ wpc' = "lock"
  /\ pc' = [pc EXCEPT ![c] = "ctor_members"]
  /\ UNCHANGED <<nrvo, guard, built, running, mtx, tasks, wcur, objs, ctx, req, cur,
                 ret, amp, ncalls, nblocks, jlcalls, nInit, nFin, appended, started,
                 raced, crashed>>

\* mtx, cond and tasks are constructed after t; then Julia() calls worker.run.
\* If the new thread already waits on cond, constructing cond over it is
\* undefined: the waiter stays registered, or the fresh object has no record
\* of it and no later notify_one reaches it.
C_CtorMembers(c) ==
  /\ ~crashed /\ pc[c] = "ctor_members"
  /\ built' = TRUE
  /\ mtx' = NoThread
  /\ tasks' = <<>>
  /\ wpc' \in (IF wpc = "wait" THEN {"wait", "lost"} ELSE {wpc})
  /\ pc' = [pc EXCEPT ![c] = "s_lock"]
  /\ UNCHANGED <<nrvo, guard, running, wcur, objs, ctx, req, cur, ret, amp,
                 ncalls, nblocks, jlcalls, nInit, nFin, appended, started, raced,
                 crashed>>

\* ------------------------------------------------------ Worker::spawn
\* std::unique_lock<std::mutex> lock(mtx).  On a destroyed Worker the
\* behaviour is undefined: the process dies or goes on in the dead object.
S_Lock(t) ==
  /\ ~crashed /\ pc[t] = "s_lock"
  /\ \/ /\ mtx = NoThread
        /\ mtx' = t
        /\ pc' = [pc EXCEPT ![t] = "s_push"]
        /\ crashed' = crashed
     \/ /\ Destroyed
        /\ crashed' = TRUE
        /\ UNCHANGED <<mtx, pc>>
  /\ UNCHANGED <<nrvo, guard, built, running, tasks, wpc, wcur, objs, ctx, req, cur,
                 ret, amp, ncalls, nblocks, jlcalls, nInit, nFin, appended, started,
                 raced>>

\* The calling thread runs the work itself instead of queueing it.
S_Push_inline(t) ==
  /\ ~crashed /\ pc[t] = "s_push"
  /\ \E o \in Outcomes(CurWork(t), amp.db_to_coef) :
       /\ objs' = Append(objs, Finished(NewTask(CurWork(t), t), o, t))
       /\ jlcalls' = jlcalls \cup {<<f, t>> : f \in o.ops}
       /\ nInit' = nInit + Count(o.ops, "jl_init")
       /\ nFin' = nFin + Count(o.ops, "jl_atexit_hook")
       /\ crashed' = o.crash
  /\ cur' = [cur EXCEPT ![t] = Len(objs) + 1]
  /\ mtx' = NoThread
  /\ pc' = [pc EXCEPT ![t] = "s_notify"]
  /\ UNCHANGED <<nrvo, guard, built, running, tasks, wpc, wcur, ctx, req, ret, amp,
                 ncalls, nblocks, appended, started, raced>>

\* packaged_task task(f); { lock; tasks.push_back([&task] { task(); }); }
S_Push(t) ==
  /\ ~crashed /\ pc[t] = "s_push"
  /\ objs' = Append(objs, NewTask(CurWork(t), t))
  /\ tasks' = Append(tasks, Len(objs) + 1)
  /\ appended' = Append(appended, Len(objs) + 1)
  /\ cur' = [cur EXCEPT ![t] = Len(objs) + 1]
  /\ mtx' = NoThread
  /\ pc' = [pc EXCEPT ![t] = "s_notify"]
  /\ UNCHANGED <<nrvo, guard, built, running, wpc, wcur, ctx, req, ret, amp, ncalls,
                 nblocks, jlcalls, nInit, nFin, started, raced, crashed>>

\* cond.notify_one(); return task;  Without the elision of the copy the
\* local the entry refers to is moved from and destroyed on return.
S_NotifyReturn(t) ==
  /\ ~crashed /\ pc[t] = "s_notify"
  /\ wpc' = IF wpc = "wait" THEN "lock" ELSE wpc
  /\ objs' = IF nrvo THEN objs ELSE [objs EXCEPT ![cur[t]].ref = "dead"]
  /\ pc' = [pc EXCEPT ![t] = IF ctx[t] = "call" /\ req[t].mode = "spawn"
                             THEN "holding" ELSE "get"]
  /\ UNCHANGED <<nrvo, guard, built, running, mtx, tasks, wcur, ctx, req, cur, ret,
                 amp, ncalls, nblocks, jlcalls, nInit, nFin, appended, started, raced,
                 crashed>>

\* ------------------------------------------------------- Worker::run
\* What the caller does once Julia::run has returned r from a task of kind k:
\* activate goes on to its next Julia::run, stores the handle in the Amp, and
\* ends; run multiplies every input sample by the coefficient it was
\* returned (output[pos] = input[pos] * coef); every other caller is back in
\* its own code.
Continue(t, k, r) ==
  /\ ret' = [ret EXCEPT ![t] = r]
  /\ CASE k = "hello" ->
            /\ req' = [req EXCEPT ![t] = [work |-> ResolveWork, mode |-> "run"]]
            /\ pc' = [pc EXCEPT ![t] = "s_lock"]
            /\ amp' = amp
       [] k = "resolve" ->
            /\ req' = [req EXCEPT ![t] = [work |-> TestWork, mode |-> "run"]]
            /\ pc' = [pc EXCEPT ![t] = "s_lock"]
            /\ amp' = [amp EXCEPT !.db_to_coef = r[2]]
       [] k = "testcall" ->
            /\ pc' = [pc EXCEPT ![t] = "idle"]
            /\ amp' = [amp EXCEPT !.stage = "active"]
            /\ req' = req
       [] k = "process" ->
            /\ pc' = [pc EXCEPT ![t] = "idle"]
            /\ \E s \in Samples :
                 amp' = [amp EXCEPT !.input = s, !.coef = r[2], !.output = s * r[2]]
            /\ req' = req
       [] OTHER ->
            /\ pc' = [pc EXCEPT ![t] = "idle"]
            /\ UNCHANGED <<amp, req>>

\* What follows the return of get(): the temporary task of run is destroyed,
\* then Julia() ends and its caller goes on to its own submission, ~Julia
\* goes on to ~Worker, any other caller has its result.
AfterGet(t) ==
  /\ objs' = IF ctx[t] = "call" /\ req[t].mode = "spawn" THEN objs
             ELSE [objs EXCEPT ![cur[t]].ref = "dead"]
  /\ CASE ctx[t] = "ctor" ->
            /\ guard' = "done"
            /\ ctx' = [ctx EXCEPT ![t] = "call"]
            /\ pc' = [pc EXCEPT ![t] = "s_lock"]
            /\ UNCHANGED <<ret, req, amp>>
       [] ctx[t] = "dtor" ->
            /\ pc' = [pc EXCEPT ![t] = "d_lock"]
            /\ UNCHANGED <<guard, ctx, ret, req, amp>>
       [] OTHER ->
            /\ Continue(t, objs[cur[t]].work.kind, objs[cur[t]].res)
            /\ UNCHANGED <<guard, ctx>>

R_Get_nowait(t) ==
  /\ ~crashed /\ pc[t] = "get"
  /\ AfterGet(t)
  /\ UNCHANGED <<nrvo, built, running, mtx, tasks, wpc, wcur, cur, ncalls, nblocks, jlcalls,
                 nInit, nFin, appended, started, raced, crashed>>

\* spawn(f).get_future().get(): blocks until the shared state is ready and
\* returns its value or rethrows its exception.
R_Get(t) ==
  /\ ~crashed /\ pc[t] = "get"
  /\ objs[cur[t]].st = "ready"
  /\ AfterGet(t)
  /\ UNCHANGED <<nrvo, built, running, mtx, tasks, wpc, wcur, cur, ncalls, nblocks, jlcalls,
                 nInit, nFin, appended, started, raced, crashed>>

\* ------------------------------------------------- Worker::threadFunc
\* std::unique_lock<std::mutex> lock(mtx), at loop entry and when cond.wait
\* returns.  Before mtx is constructed the behaviour is undefined.
W_Lock ==
  /\ ~crashed /\ wpc = "lock"
  /\ \/ /\ mtx = NoThread
        /\ mtx' = WorkerThread
        /\ wpc' = "check"
        /\ crashed' = crashed
     \/ /\ ~built
        /\ crashed' = TRUE
        /\ UNCHANGED <<mtx, wpc>>
  /\ UNCHANGED <<nrvo, guard, built, running, tasks, wcur, objs, pc, ctx, req, cur, ret, amp,
                 ncalls, nblocks, jlcalls, nInit, nFin, appended, started, raced>>

\* while (tasks.empty() && running) cond.wait(lock);
W_Wait ==
  /\ ~crashed /\ wpc = "check"
  /\ tasks = <<>> /\ running
  /\ mtx' = NoThread
  /\ wpc' = "wait"
  /\ UNCHANGED <<nrvo, guard, built, running, tasks, wcur, objs, pc, ctx, req, cur, ret, amp,
                 ncalls, nblocks, jlcalls, nInit, nFin, appended, started, raced, crashed>>

\* cond.wait may return without a notification.
W_Spurious ==
  /\ ~crashed /\ wpc \in {"wait", "lost"}
  /\ wpc' = "lock"
  /\ UNCHANGED <<nrvo, guard, built, running, mtx, tasks, wcur, objs, pc, ctx, req, cur, ret,
                 amp, ncalls, nblocks, jlcalls, nInit, nFin, appended, started, raced,
                 crashed>>

\* if (!running) break;
W_Break ==
  /\ ~crashed /\ wpc = "check"
  /\ ~running
  /\ mtx' = NoThread
  /\ wpc' = "exited"
  /\ UNCHANGED <<nrvo, guard, built, running, tasks, wcur, objs, pc, ctx, req, cur, ret, amp,
                 ncalls, nblocks, jlcalls, nInit, nFin, appended, started, raced, crashed>>

W_Dequeue_back ==
  /\ ~crashed /\ wpc = "check"
  /\ tasks # <<>> /\ running
  /\ wcur' = tasks[Len(tasks)]
  /\ tasks' = SubSeq(tasks, 1, Len(tasks) - 1)
  /\ mtx' = NoThread
  /\ wpc' = "call"
  /\ UNCHANGED <<nrvo, guard, built, running, objs, pc, ctx, req, cur, ret, amp, ncalls,
                 nblocks, jlcalls, nInit, nFin, appended, started, raced, crashed>>

\* The worker keeps the lock while it calls the entry it took.
W_Dequeue_locked ==
  /\ ~crashed /\ wpc = "check"
  /\ tasks # <<>> /\ running
  /\ wcur' = Head(tasks)
  /\ tasks' = Tail(tasks)
  /\ wpc' = "call"
  /\ UNCHANGED <<nrvo, guard, built, running, mtx, objs, pc, ctx, req, cur, ret, amp, ncalls,
                 nblocks, jlcalls, nInit, nFin, appended, started, raced, crashed>>

\* The worker takes the next entry whether or not running was cleared.
W_Dequeue_drain ==
  /\ ~crashed /\ wpc = "check"
  /\ tasks # <<>>
  /\ wcur' = Head(tasks)
  /\ tasks' = Tail(tasks)
  /\ mtx' = NoThread
  /\ wpc' = "call"
  /\ UNCHANGED <<nrvo, guard, built, running, objs, pc, ctx, req, cur, ret, amp, ncalls,
                 nblocks, jlcalls, nInit, nFin, appended, started, raced, crashed>>

\* task = std::move(tasks.front()); tasks.pop_front(); and the lock's scope ends
W_Dequeue ==
  /\ ~crashed /\ wpc = "check"
  /\ tasks # <<>> /\ running
  /\ wcur' = Head(tasks)
  /\ tasks' = Tail(tasks)
  /\ mtx' = NoThread
  /\ wpc' = "call"
  /\ UNCHANGED <<nrvo, guard, built, running, objs, pc, ctx, req, cur, ret, amp, ncalls,
                 nblocks, jlcalls, nInit, nFin, appended, started, raced, crashed>>

\* task(): the entry calls the packaged_task it refers to.  If that object
\* is gone the behaviour is undefined: the process dies, or the call goes
\* through the stale object.
W_Call ==
  /\ ~crashed /\ wpc = "call"
  /\ \/ /\ objs' = [objs EXCEPT ![wcur].st = "running", ![wcur].by = WorkerThread]
        /\ started' = Append(started, wcur)
        /\ wpc' = "body"
        /\ crashed' = crashed
     \/ /\ objs[wcur].ref = "dead"
        /\ crashed' = TRUE
        /\ UNCHANGED <<objs, started, wpc>>
  /\ UNCHANGED <<nrvo, guard, built, running, mtx, tasks, wcur, pc, ctx, req, cur, ret, amp,
                 ncalls, nblocks, jlcalls, nInit, nFin, appended, raced>>

\* An exception of the callable leaves threadFunc and ends the thread.
W_Body_uncaught ==
  /\ ~crashed /\ wpc = "body"
  /\ RunBody(WorkerThread, wcur)
  /\ wpc' = IF objs[wcur].work.kind = "throws" THEN "exited" ELSE "lock"
  /\ UNCHANGED <<nrvo, guard, built, running, mtx, tasks, wcur, pc, ctx, req, cur, ret, amp,
                 ncalls, nblocks, appended, started, raced>>

\* A second thread serves the queue while the first is in a callable.
W_Body_pool ==
  /\ ~crashed /\ wpc = "body"
  /\ \/ /\ RunBody(WorkerThread, wcur)
        /\ wpc' = "lock"
        /\ UNCHANGED <<tasks, started>>
     \/ /\ tasks # <<>> /\ mtx = NoThread
        /\ objs' = [objs EXCEPT ![Head(tasks)].st = "running",
                                ![Head(tasks)].by = WorkerThread]
        /\ started' = Append(started, Head(tasks))
        /\ tasks' = Tail(tasks)
        /\ UNCHANGED <<jlcalls, nInit, nFin, crashed, wpc>>
  /\ UNCHANGED <<nrvo, guard, built, running, mtx, wcur, pc, ctx, req, cur, ret, amp, ncalls,
                 nblocks, appended, raced>>

\* The callable runs to its end on the worker thread; the packaged_task makes
\* the shared state ready and the loop starts over.
W_Body ==
  /\ ~crashed /\ wpc = "body"
  /\ RunBody(WorkerThread, wcur)
  /\ wpc' = "lock"
  /\ UNCHANGED <<nrvo, guard, built, running, mtx, tasks, wcur, pc, ctx, req, cur, ret, amp,
                 ncalls, nblocks, appended, started, raced>>

\* ------------------------------------------------ ~Julia and ~Worker
\* Static destruction of the instance: ~Julia() calls worker.run(finalize).
E_Begin ==
  /\ ~crashed /\ pc[ExitThread] = "idle" /\ guard = "done"
  /\ ctx' = [ctx EXCEPT ![ExitThread] = "dtor"]
  /\ pc' = [pc EXCEPT ![ExitThread] = "s_lock"]
  /\ UNCHANGED <<nrvo, guard, built, running, mtx, tasks, wpc, wcur, objs, req, cur, ret,
                 amp, ncalls, nblocks, jlcalls, nInit, nFin, appended, started, raced,
                 crashed>>

\* ~Worker: std::unique_lock<std::mutex> lock(mtx);
D_Lock ==
  /\ ~crashed /\ pc[ExitThread] = "d_lock"
  /\ mtx = NoThread
  /\ mtx' = ExitThread
  /\ pc' = [pc EXCEPT ![ExitThread] = "d_set"]
  /\ UNCHANGED <<nrvo, guard, built, running, tasks, wpc, wcur, objs, ctx, req, cur, ret,
                 amp, ncalls, nblocks, jlcalls, nInit, nFin, appended, started, raced,
                 crashed>>

\* running = false; and the lock's scope ends
D_Set ==
  /\ ~crashed /\ pc[ExitThread] = "d_set"
  /\ running' = FALSE
  /\ mtx' = NoThread
  /\ pc' = [pc EXCEPT ![ExitThread] = "d_notify"]
  /\ UNCHANGED <<nrvo, guard, built, tasks, wpc, wcur, objs, ctx, req, cur, ret, amp, ncalls,
                 nblocks, jlcalls, nInit, nFin, appended, started, raced, crashed>>

\* ~Worker goes on to join without signalling the condition variable.
D_Notify_none ==
  /\ ~crashed /\ pc[ExitThread] = "d_notify"
  /\ pc' = [pc EXCEPT ![ExitThread] = "d_join"]
  /\ UNCHANGED <<nrvo, guard, built, running, mtx, tasks, wpc, wcur, objs, ctx, req, cur,
                 ret, amp, ncalls, nblocks, jlcalls, nInit, nFin, appended, started, raced,
                 crashed>>

\* cond.notify_one();
D_Notify ==
  /\ ~crashed /\ pc[ExitThread] = "d_notify"
  /\ wpc' = IF wpc = "wait" THEN "lock" ELSE wpc
  /\ pc' = [pc EXCEPT ![ExitThread] = "d_join"]
  /\ UNCHANGED <<nrvo, guard, built, running, mtx, tasks, wcur, objs, ctx, req, cur, ret,
                 amp, ncalls, nblocks, jlcalls, nInit, nFin, appended, started, raced,
                 crashed>>

D_Join_nowait ==
  /\ ~crashed /\ pc[ExitThread] = "d_join"
  /\ pc' = [pc EXCEPT ![ExitThread] = "done"]
  /\ UNCHANGED <<nrvo, guard, built, running, mtx, tasks, wpc, wcur, objs, ctx, req, cur,
                 ret, amp, ncalls, nblocks, jlcalls, nInit, nFin, appended, started, raced,
                 crashed>>

\* t.join(); then the members and the Julia object are destroyed.
D_Join ==
  /\ ~crashed /\ pc[ExitThread] = "d_join"
  /\ wpc = "exited"
  /\ pc' = [pc EXCEPT ![ExitThread] = "done"]
  /\ UNCHANGED <<nrvo, guard, built, running, mtx, tasks, wpc, wcur, objs, ctx, req, cur,
                 ret, amp, ncalls, nblocks, jlcalls, nInit, nFin, appended, started, raced,
                 crashed>>

\* ---------------------------------------------------------- callers
\* Julia::run(f) from any thread: instance().worker.run(f)
C_Run(c, w) ==
  /\ ~crashed /\ InOrder(c) /\ pc[c] = "idle" /\ ncalls < MaxTasks
  /\ req' = [req EXCEPT ![c] = [work |-> w, mode |-> "run"]]
  /\ ret' = [ret EXCEPT ![c] = None]
  /\ ncalls' = ncalls + 1
  /\ Instance(c)
  /\ UNCHANGED <<nrvo, built, running, mtx, tasks, wpc, wcur, objs, cur, amp, nblocks,
                 jlcalls, nInit, nFin, appended, started, crashed>>

\* Julia::spawn(f) from any thread: instance().worker.spawn(f)
C_Spawn(c, w) ==
  /\ ~crashed /\ InOrder(c) /\ pc[c] = "idle" /\ ncalls < MaxTasks
  /\ req' = [req EXCEPT ![c] = [work |-> w, mode |-> "spawn"]]
  /\ ret' = [ret EXCEPT ![c] = None]
  /\ ncalls' = ncalls + 1
  /\ Instance(c)
  /\ UNCHANGED <<nrvo, built, running, mtx, tasks, wpc, wcur, objs, cur, amp, nblocks,
                 jlcalls, nInit, nFin, appended, started, crashed>>

\* The caller of spawn waits on the task it was handed: get_future().get()
C_HandleWait(c) ==
  /\ ~crashed /\ pc[c] = "holding"
  /\ pc' = [pc EXCEPT ![c] = "get"]
  /\ UNCHANGED <<nrvo, guard, built, running, mtx, tasks, wpc, wcur, objs, ctx, req, cur,
                 ret, amp, ncalls, nblocks, jlcalls, nInit, nFin, appended, started, raced,
                 crashed>>

\* The caller of spawn lets the task it was handed go out of scope.
C_HandleDrop(c) ==
  /\ ~crashed /\ pc[c] = "holding"
  /\ objs' = [objs EXCEPT ![cur[c]].ref = "dead"]
  /\ pc' = [pc EXCEPT ![c] = "idle"]
  /\ UNCHANGED <<nrvo, guard, built, running, mtx, tasks, wpc, wcur, ctx, req, cur, ret, amp,
                 ncalls, nblocks, jlcalls, nInit, nFin, appended, started, raced, crashed>>

\* ------------------------------------------------- the LV2 callbacks
\* activate(): three Julia::run calls in a row, the first of them here.
H_Activate(c) ==
  /\ ~crashed /\ InOrder(c) /\ pc[c] = "idle" /\ amp.stage = "instantiated"
  /\ amp' = [amp EXCEPT !.stage = "activating"]
  /\ req' = [req EXCEPT ![c] = [work |-> HelloWork, mode |-> "run"]]
  /\ ret' = [ret EXCEPT ![c] = None]
  /\ Instance(c)
  /\ UNCHANGED <<nrvo, built, running, mtx, tasks, wpc, wcur, objs, cur, ncalls, nblocks,
                 jlcalls, nInit, nFin, appended, started, crashed>>

\* run(): coef = Julia::run([amp, gain] { ... })
H_Process(c, g) ==
  /\ ~crashed /\ InOrder(c) /\ pc[c] = "idle" /\ amp.stage = "active" /\ nblocks < MaxBlocks
  /\ nblocks' = nblocks + 1
  /\ req' = [req EXCEPT ![c] = [work |-> ProcWork(g), mode |-> "run"]]
  /\ ret' = [ret EXCEPT ![c] = None]
  /\ Instance(c)
  /\ UNCHANGED <<nrvo, built, running, mtx, tasks, wpc, wcur, objs, cur, amp, ncalls,
                 jlcalls, nInit, nFin, appended, started, crashed>>

\* the host's deactivate(), cleanup() and dlclose() (test.c 127-134), made
\* once no callback is running: dlclose runs the static destructor.
H_Close ==
  /\ ~crashed /\ pc[ExitThread] = "idle" /\ guard = "done"
  /\ amp.stage = "active" /\ \A c \in Callers : pc[c] = "idle"
  /\ amp' = [amp EXCEPT !.stage = "closed"]
  /\ ctx' = [ctx EXCEPT ![ExitThread] = "dtor"]
  /\ pc' = [pc EXCEPT ![ExitThread] = "s_lock"]
  /\ UNCHANGED <<nrvo, guard, built, running, mtx, tasks, wpc, wcur, objs, req, cur, ret,
                 ncalls, nblocks, jlcalls, nInit, nFin, appended, started, raced, crashed>>

\* ---------------------------------------------------- specifications
\* The Worker in service: clients submitting, the worker thread serving.
Service ==
  \/ \E t \in Clients : S_Lock(t)
  \/ \E t \in Clients : S_Push(t)
  \/ \E t \in Clients : S_NotifyReturn(t)
  \/ \E t \in Clients : R_Get(t)
  \/ \E c \in Callers : C_CtorThread(c)
  \/ \E c \in Callers : C_CtorMembers(c)
  \/ W_Lock \/ W_Wait \/ W_Spurious \/ W_Dequeue \/ W_Call \/ W_Body

\* ~Worker, and the worker thread leaving its loop.
Shutdown == D_Lock \/ D_Set \/ D_Notify \/ D_Join \/ W_Break

\* Any threads calling Julia::run and Julia::spawn with work of their own.
Next ==
  \/ Service
  \/ \E c \in Callers : C_InstanceReady(c)
  \/ \E c \in Callers, w \in UserWorks : C_Run(c, w)
  \/ \E c \in Callers : C_Spawn(c, SpawnWork)
  \/ \E c \in Callers : C_HandleWait(c)
  \/ \E c \in Callers : C_HandleDrop(c)

Spec == Init /\ [][Next]_vars

\* Threads calling Julia::run(const char*) while the process may exit.
LifeNext ==
  \/ Service
  \/ \E c \in Callers : C_InstanceReady(c)
  \/ Shutdown
  \/ E_Begin
  \/ \E c \in Callers : C_Run(c, ScriptWork)

LifeSpec == Init /\ [][LifeNext]_vars

\* The next step of client thread t inside Julia::instance, Worker::spawn
\* and Worker::run, and the next step of the worker thread in threadFunc
\* other than a return of cond.wait without a notification.
ClientStep(t) ==
  \/ S_Lock(t) \/ S_Push(t) \/ S_NotifyReturn(t) \/ R_Get(t)
  \/ t \in Callers /\ (C_CtorThread(t) \/ C_CtorMembers(t) \/ C_InstanceReady(t))

WorkerStep == W_Lock \/ W_Wait \/ W_Dequeue \/ W_Call \/ W_Body \/ W_Break

\* A fair scheduler: a thread that can take its next step eventually takes
\* it.  Nothing obliges a caller to make a call, the process to exit, or
\* cond.wait to return without a notification.
ServiceFairness ==
  /\ \A t \in Clients : WF_vars(ClientStep(t))
  /\ WF_vars(WorkerStep)

ShutdownFairness == WF_vars(D_Lock \/ D_Set \/ D_Notify \/ D_Join)

FairSpec == Spec /\ ServiceFairness

FairLifeSpec == LifeSpec /\ ServiceFairness /\ ShutdownFairness

\* The host's threads calling activate once, then process-a-block, then
\* closing the plugin.  The first access to the instance is activate's, made
\* while no other callback runs, so no thread waits for the construction.
HostNext ==
  \/ Service
  \/ Shutdown
  \/ H_Close
  \/ \E c \in Callers : H_Activate(c)
  \/ \E c \in Callers, g \in Gains : H_Process(c, g)

HostSpec == Init /\ [][HostNext]_vars

\* ============================================================ claims
\* A call of Julia::run by caller c has returned.
Returned(c) == pc[c] = "idle" /\ cur[c] # 0 /\ req[c].mode = "run"

FinishedIds == {id \in Ids : objs[id].st = "ready"}

\* C1: the worker thread begins the tasks in the order in which they were
\* appended to the queue: the sequence of entries it has started is always
\* a prefix of the sequence of entries appended.
C1_FifoOrder ==
  /\ Len(started) <= Len(appended)
  /\ \A i \in 1..Len(started) : started[i] = appended[i]

C1_Witness ==
  /\ Len(started) >= 3
  /\ \E i, j \in 1..Len(started) :
       /\ i < j
       /\ objs[started[i]].owner \in Callers
       /\ objs[started[j]].owner \in Callers
       /\ objs[started[i]].owner # objs[started[j]].owner

\* C2: at most one task body is executing at any time.
C2_OneAtATime == Cardinality({id \in Ids : objs[id].st = "running"}) <= 1

C2_Witness ==
  \E id \in Ids :
    /\ objs[id].st = "running"
    /\ objs[id].owner \in Callers
    /\ \E c \in Callers : c # objs[id].owner /\ pc[c] = "get" /\ objs[cur[c]].st = "pending"

\* C3: every call into the Julia runtime is made by the worker thread and no
\* task is ever run by the thread that submitted it, also when
\* process-a-block comes from another thread than activate.
C3_OnWorkerThread ==
  /\ \A x \in jlcalls : x[2] = WorkerThread
  /\ \A id \in Ids : objs[id].st # "pending" => objs[id].by = WorkerThread

C3_Witness ==
  /\ {x[1] : x \in jlcalls} =
       {"jl_init", "jl_eval_string", "jl_get_function", "jl_box_float32", "jl_call1",
        "jl_atexit_hook"}
  /\ \E a, b \in FinishedIds :
       /\ objs[a].work.kind = "testcall"
       /\ objs[b].work.kind = "process"
       /\ objs[a].owner # objs[b].owner

\* C4: Julia::run returns only after the worker thread has finished the work,
\* and returns the value that execution stored; for a pure work this is the
\* value of the work.
C4_RunReturnsResult ==
  \A c \in Callers :
    Returned(c) =>
      /\ objs[cur[c]].st = "ready"
      /\ objs[cur[c]].by = WorkerThread
      /\ ret[c] = objs[cur[c]].res
      /\ req[c].work.kind = "pure" => ret[c] = Val(req[c].work.arg)

C4_Witness ==
  \E c, d \in Callers :
    /\ Returned(c) /\ req[c].work.kind = "pure" /\ ret[c] = Val(req[c].work.arg)
    /\ d # c /\ cur[d] # 0 /\ cur[d] < cur[c]

\* C5: a callable that throws leaves its exception in the task's shared state,
\* the caller of run gets it, and the worker thread stays in its loop: it
\* ends only after running was cleared.
C5_FailureCaptured ==
  /\ \A id \in FinishedIds : objs[id].work.kind = "throws" => objs[id].res = Exc
  /\ \A c \in Callers : Returned(c) /\ req[c].work.kind = "throws" => ret[c] = Exc
  /\ wpc = "exited" => ~running

C5_Witness ==
  \E a, b \in FinishedIds :
    /\ a < b
    /\ objs[a].work.kind = "throws" /\ objs[a].res = Exc
    /\ Returned(objs[a].owner) /\ cur[objs[a].owner] = a /\ ret[objs[a].owner] = Exc
    /\ wpc # "exited" /\ ~crashed

\* C6: jl_init runs once however many threads race on the first access, the
\* finalisation runs once, and it has run before ~Worker clears running.
C6_InitFinOnce ==
  /\ nInit <= 1 /\ nFin <= 1
  /\ guard = "done" => nInit = 1
  /\ \A c \in Callers : pc[c] \in {"holding", "get"} /\ ctx[c] = "call" => nInit = 1
  /\ ~running => nFin = 1
  /\ pc[ExitThread] \in {"d_lock", "d_set", "d_notify", "d_join", "done"} => nFin = 1

C6_Witness ==
  /\ raced
  /\ Destroyed /\ wpc = "exited"
  /\ nInit = 1 /\ nFin = 1
  /\ \A c \in Callers : Returned(c)

\* What the stages of C7 require: READY and later stages need jl_init to have
\* run (once), STOPPED needs the finalisation done and the worker thread gone.
C7_StageInv ==
  /\ Rank(Lifecycle) >= 2 =>
       /\ nInit = 1
       /\ \E id \in FinishedIds : objs[id].work.kind = "init"
  /\ Lifecycle = "STOPPED" =>
       /\ nFin = 1
       /\ \E id \in FinishedIds : objs[id].work.kind = "fin"
       /\ wpc = "exited"

\* C7: the lifecycle UNINITIALIZED, INITIALIZING, READY, FINALIZING, STOPPED
\* is passed in this order, one stage at a time and never backwards; READY
\* needs the initialisation done, STOPPED needs the finalisation done and the
\* worker thread gone, and jl_init never runs again from READY on.
C7_LifecycleForward ==
  /\ []C7_StageInv
  /\ [][/\ Rank(Lifecycle') \in {Rank(Lifecycle), Rank(Lifecycle) + 1}
        /\ Rank(Lifecycle) >= 2 => nInit' = nInit]_vars

C7_Witness ==
  /\ Lifecycle = "STOPPED"
  /\ nInit = 1
  /\ \E id \in Ids : objs[id].owner \in Callers /\ objs[id].at = "STOPPED"

\* C8: once the teardown of the instance has begun no caller's spawn or run
\* appends a task to the queue, so no caller's task is started after the
\* finalisation task.
C8_NoLateSubmission ==
  /\ \A id \in Ids :
       objs[id].owner \in Callers => objs[id].at \notin {"FINALIZING", "STOPPED"}
  /\ \A i, j \in 1..Len(started) :
       i < j /\ objs[started[i]].work.kind = "fin" => objs[started[j]].owner \notin Callers

\* C9: in the tasks of activate and process-a-block an error signalled by a
\* runtime operation reaches the caller as a failure result and the
\* operation's return value is not used by the following step.
C9_ErrorsSurfaced ==
  \A id \in FinishedIds :
    objs[id].work.kind \in PluginKinds /\ objs[id].sig =>
      /\ objs[id].res \in {Exc, Val(Sentinel)}
      /\ ~objs[id].used

\* C10: when the callable returns a value whose type is not Float32 the
\* task's result is the sentinel -1 and the value is not unboxed.
C10_SentinelOnMismatch ==
  /\ \A id \in FinishedIds :
       /\ objs[id].work.kind \in {"testcall", "process"}
       /\ objs[id].rt \notin {"none", "Float32"}
       => objs[id].res = Val(Sentinel) /\ ~objs[id].unboxed
  /\ \A c \in Callers :
       /\ Returned(c)
       /\ req[c].work.kind \in {"testcall", "process"}
       /\ objs[cur[c]].rt \notin {"none", "Float32"}
       => ret[c] = Val(Sentinel)

C10_Witness ==
  \E a, b \in FinishedIds :
    /\ objs[a].work.kind = "testcall" /\ objs[a].rt = "Int64"
    /\ objs[a].res = Val(Sentinel)
    /\ objs[b].work.kind = "process" /\ objs[b].rt = "Float64"
    /\ objs[b].res = Val(Sentinel) /\ ~objs[b].unboxed
    /\ Returned(objs[b].owner) /\ ret[objs[b].owner] = Val(Sentinel)

\* C11: when process-a-block was returned the sentinel as its coefficient the
\* output sample is silence or the unmodified input sample; the sentinel is
\* not multiplied into the signal.
C11_SentinelNotApplied ==
  amp.coef = Sentinel => amp.output \in {0, amp.input}

\* C12: no task delivers a handle born in the runtime to its caller, and
\* none is kept in the plugin instance: every result is a plain native value.
C12_NoRuntimeHandle ==
  /\ \A id \in FinishedIds : objs[id].res # Handle(ValidHandle)
  /\ \A c \in Callers : ret[c] # Handle(ValidHandle)
  /\ amp.db_to_coef # ValidHandle

\* C13: from its append until the worker has executed it an entry refers to a
\* live task object, whatever the caller does with what spawn returned.
C13_EntryOwnsTask ==
  /\ \A i \in 1..Len(tasks) : objs[tasks[i]].ref = "live"
  /\ wpc \in {"call", "body"} => objs[wcur].ref = "live"

\* Once running is cleared the queue only grows and its entries stay unexecuted.
C14_NoDequeue ==
  ~running =>
    /\ Len(tasks') >= Len(tasks)
    /\ \A i \in 1..Len(tasks) : tasks'[i] = tasks[i] /\ objs'[tasks[i]].st = "pending"
    /\ wcur' = wcur

\* C14: once ~Worker has cleared running the worker thread removes no further
\* entry from the queue, so what is queued then is never executed; an entry
\* it had already taken runs to its end before the thread leaves threadFunc.
C14_ShutdownDiscards ==
  /\ [][C14_NoDequeue]_vars
  /\ [](wpc = "exited" =>
         /\ \A id \in Ids : objs[id].st # "running"
         /\ wcur # 0 /\ objs[wcur].st = "ready")

C14_Witness ==
  /\ wpc = "exited" /\ ~running
  /\ tasks # <<>> /\ objs[Head(tasks)].st = "pending"
  /\ objs[wcur].owner \in Callers /\ objs[wcur].at = "FINALIZING"

\* C15: once ~Worker has cleared running, the worker thread leaves its loop
\* and join returns, wherever the thread was and whatever spawn calls run
\* beside it (unless the process has died by then).
C15_ShutdownTerminates ==
  ~running ~> ((wpc = "exited" /\ Destroyed) \/ crashed)

C15_Witness ==
  /\ Destroyed /\ wpc = "exited" /\ ~crashed
  /\ \E id \in Ids : objs[id].owner \in Callers /\ objs[id].at = "FINALIZING"

\* C16: while running is set, every task appended to the queue is eventually
\* executed: the notify_one of spawn reaches a worker thread that waits or
\* is about to wait (unless the process has died by then).
C16_EventuallyExecuted ==
  \A i \in 1..(MaxTasks + 1) :
    (i \in Ids /\ objs[i].st = "pending") ~> ((i \in Ids /\ objs[i].st = "ready") \/ crashed)

\* C17: while the worker thread calls an entry or is inside its body it does
\* not hold the queue lock, so a spawn can take the lock and append during
\* a running task.
C17_LockNotHeldInTask ==
  wpc \in {"call", "body"} => mtx # WorkerThread

C17_Witness ==
  /\ wpc = "body" /\ objs[wcur].st = "running"
  /\ \E c \in Callers :
       /\ pc[c] = "s_notify" /\ mtx = NoThread
       /\ tasks # <<>> /\ tasks[Len(tasks)] = cur[c]
       /\ cur[c] > wcur

\* C18: a call of run returns to its caller with a value or a failure also
\* when the Worker is destroyed while the call's task is still queued: a
\* caller waiting in run once running is cleared eventually leaves its wait
\* (unless the process has died by then).
C18_RunReturnsAtShutdown ==
  \A c \in Callers :
    (pc[c] = "get" /\ ~running) ~> (pc[c] # "get" \/ crashed)

\* C19: while Worker() has not yet constructed mtx, cond and tasks the new
\* thread has not locked, waited or read the queue: it has not got past the
\* first statement of threadFunc.
C19_MembersBuiltFirst ==
  ~built => wpc \in {"none", "lock"}

\* C20: the first entry the worker thread ever executes is the initialization
\* task, and no other task begins before the initialization task has
\* finished, however many threads race on the first access.
C20_InitFirst ==
  /\ Len(started) >= 1 => objs[started[1]].work.kind = "init"
  /\ \A id \in Ids :
       objs[id].work.kind # "init" /\ objs[id].st # "pending" =>
         \E j \in FinishedIds : objs[j].work.kind = "init" /\ j < id

C20_Witness ==
  /\ raced
  /\ Len(started) > NCallers
  /\ objs[started[1]].work.kind = "init"
  /\ \A c \in Callers : Returned(c) /\ objs[cur[c]].st = "ready"

====
